---- MODULE Spec2Model ----
(***************************************************************************)
(* Model of Ingestor (src/src/ingestor.py): add_log, the is_running flag   *)
(* and the async generator process_stream, which turns the queue into      *)
(* batches closed by size (BATCH_SIZE_LIMIT) or by time (BATCH_TIME_LIMIT).*)
(*                                                                         *)
(* Scheduling.  asyncio runs one coroutine at a time, so the code between  *)
(* two suspension points of process_stream is one atomic action.  The      *)
(* generator is suspended only in wait_for (lines 47, 55) and at its four  *)
(* yields (lines 61, 68, 87, 96); producers and whoever clears is_running  *)
(* run only while it is suspended.                                         *)
(*                                                                         *)
(* Time.  One Tick is one second.  The code reads the clock only as        *)
(* time.time() - last_flush_time, compares that difference with            *)
(* BATCH_TIME_LIMIT and subtracts it from BATCH_TIME_LIMIT under max(0, .),*)
(* so the model keeps the difference itself (time_since_flush, the local   *)
(* of line 34), saturated at BATCH_TIME_LIMIT, and the time left of the    *)
(* wait in flight (timeout).  The clock of wait_for and time.time() are    *)
(* taken to be one clock.  Computation takes no time: the clock moves only *)
(* while the generator is suspended, and a wait whose queue holds a record *)
(* or whose timeout has run out is served before the clock moves.  When a  *)
(* record arrives at the very instant the timeout runs out, either may be  *)
(* served first.                                                           *)
(*                                                                         *)
(* Environment.  add_log and the assignment is_running = False may happen  *)
(* at any time, also before the first pull, after a stop request and while *)
(* the consumer holds a batch: nothing in the Ingestor forbids it.         *)
(*                                                                         *)
(* BATCH_SIZE_LIMIT and BATCH_TIME_LIMIT are the class attributes of lines *)
(* 11-12 set to small values, as tests/test_ingestor.py lines 36 and 83 do;*)
(* the claims are stated for whatever values they have.                    *)
(*                                                                         *)
(* Analyzer.analyze_batch (src/src/agent.py), which the consumer of        *)
(* app.py calls on every batch, is modelled apart as a function of its     *)
(* argument, of self.model and of what the model call does (SpecAnalyzer). *)
(* ChaosGenerator.generate_log_stream (src/src/generators.py), the         *)
(* producer of app.py, is modelled apart as well (SpecGenerator).          *)
(***************************************************************************)
EXTENDS Integers, Sequences, FiniteSets

BATCH_SIZE_LIMIT == 3
BATCH_TIME_LIMIT == 3
LIVENESS_TIMEOUT == 1

MaxRecords == 7
NumProducers == 2
MaxInterleaved == 4
MaxFaults == 2

Producers == 1..NumProducers

VARIABLES
    queue,            \* self.queue: records put and not yet got, oldest first
    is_running,       \* self.is_running
    batch,            \* local batch of process_stream
    time_since_flush, \* time.time() - last_flush_time, saturated at BATCH_TIME_LIMIT
    timeout,          \* seconds left of the wait_for in flight
    pc,               \* where process_stream is suspended
    emitted,          \* history: the batches yielded so far, in order
    ingested,         \* history: the records passed to add_log, in order
    faults,           \* history: number of queue-read faults so far
    uptime,           \* stopwatch: seconds since process_stream started
    since_push,       \* stopwatch: seconds since the first add_log
    push_uptime,      \* history: uptime at the latest add_log
    push_span,        \* history: since_push at the latest add_log
    push_after_stop,  \* history: add_log was called after an observed stop request
    at_stop,          \* history: the state at the latest stop request
    since_stop,       \* stopwatch: seconds since the latest stop request
    since_yield,      \* stopwatch: seconds since the latest batch was yielded
    observe,          \* which of the histories above this run records
    model,            \* Analyzer: self.model is set
    logs,             \* Analyzer: the argument of the analyze_batch call
    reply,            \* Analyzer: what generate_content_async does in that call
    result,           \* Analyzer: how the analyze_batch call ended
    gen_is_running,   \* ChaosGenerator: self.is_running
    meltdown_mode,    \* ChaosGenerator: self._meltdown_mode
    gen_pc,           \* ChaosGenerator: where generate_log_stream is suspended
    batch_size,       \* ChaosGenerator: local batch_size, the size of the burst
    sent,             \* ChaosGenerator: records of the burst yielded so far
    gen_stop          \* history: the burst at the stop request, records since

state == <<queue, is_running, batch, time_since_flush, timeout, pc>>
hist == <<emitted, ingested, faults, uptime, since_push, push_uptime, push_span,
          push_after_stop, at_stop, since_stop, since_yield, observe>>
analysis == <<model, logs, reply, result>>
chaos == <<gen_is_running, meltdown_mode, gen_pc, batch_size, sent, gen_stop>>
vars == <<state, hist, analysis, chaos>>

\* emitted, ingested and faults are recorded in every run.  The stopwatches
\* and the push histories are recorded in the runs that observe "push", at_stop
\* in the runs that observe "stop", since_stop in the runs that observe
\* "stopclock", since_yield in the runs that observe "yield"; elsewhere they
\* keep their initial values.
ObservePush == "push" \in observe
ObserveStop == "stop" \in observe
ObserveStopClock == "stopclock" \in observe
ObserveYield == "yield" \in observe

\* The stopwatches stop at WatchMax: the claims compare them with
\* BATCH_TIME_LIMIT only.
WatchMax == BATCH_TIME_LIMIT + 1

Min(a, b) == IF a < b THEN a ELSE b
Max(a, b) == IF a > b THEN a ELSE b

RECURSIVE Flatten(_)
Flatten(bs) == IF bs = <<>> THEN <<>> ELSE Head(bs) \o Flatten(Tail(bs))

RECURSIVE CountOf(_, _)
CountOf(p, s) ==
    IF s = <<>> THEN 0
    ELSE (IF Head(s)[1] = p THEN 1 ELSE 0) + CountOf(p, Tail(s))

YieldPcs == {"yield_size", "yield_timeout", "yield_recheck", "yield_final"}

\* The outcome of one atomic run of process_stream up to its next suspension
\* point: where it suspends, its locals there, and the batch it yields, if any.
Cont(p, b, t, w, out) ==
    [pc |-> p, batch |-> b, time_since_flush |-> t, timeout |-> w, out |-> out]

\* Mutant of time_remaining: the time already spent in the window is ignored.
time_remaining_Full(t) == BATCH_TIME_LIMIT

\* Line 35.
time_remaining(t) == Max(0, BATCH_TIME_LIMIT - t)

\* Lines 94-96: flush remaining, then the generator returns and its frame
\* (batch, last_flush_time) is released.
FlushRemaining(b, t) ==
    IF Len(b) > 0
    THEN Cont("yield_final", b, t, 0, <<b>>)
    ELSE Cont("done", <<>>, 0, 0, <<>>)

\* Line 32.
WhileCond(run, q) == run \/ q # <<>>

\* Mutant of LoopTop: with an empty batch the wait lasts a whole window
\* instead of the 1s of line 55.
LoopTop_LongIdleWait(b, t, run, q) ==
    IF WhileCond(run, q)
    THEN Cont("wait", b, t,
              IF Len(b) > 0 THEN time_remaining(t) ELSE BATCH_TIME_LIMIT, <<>>)
    ELSE FlushRemaining(b, t)

\* Lines 32-55: the loop test, the timeout of the wait, and the wait itself.
LoopTop(b, t, run, q) ==
    IF WhileCond(run, q)
    THEN Cont("wait", b, t,
              IF Len(b) > 0 THEN time_remaining(t) ELSE LIVENESS_TIMEOUT, <<>>)
    ELSE FlushRemaining(b, t)

\* Lines 91-92.
BreakCheck(b, t, run, q) ==
    IF ~run /\ q = <<>>
    THEN FlushRemaining(b, t)
    ELSE LoopTop(b, t, run, q)

\* Mutant of TimeRecheck: lines 86-89 are missing.
TimeRecheck_Never(b, t, run, q) == BreakCheck(b, t, run, q)

\* Lines 85-89: the explicit time check after the try statement.
TimeRecheck(b, t, run, q) ==
    IF Len(b) > 0 /\ t >= BATCH_TIME_LIMIT
    THEN Cont("yield_recheck", b, t, 0, <<b>>)
    ELSE BreakCheck(b, t, run, q)

\* Mutants of AppendLog: the record is put in front of the batch; the size
\* check is off by one.
AppendLog_Prepend(b, log, t, run, q) ==
    IF Len(<<log>> \o b) >= BATCH_SIZE_LIMIT
    THEN Cont("yield_size", <<log>> \o b, t, 0, <<(<<log>> \o b)>>)
    ELSE TimeRecheck(<<log>> \o b, t, run, q)

\* Mutant of AppendLog: the time check of line 86 comes before the size check
\* of line 60.
AppendLog_TimeFirst(b, log, t, run, q) ==
    IF t >= BATCH_TIME_LIMIT
    THEN Cont("yield_recheck", Append(b, log), t, 0, <<Append(b, log)>>)
    ELSE IF Len(Append(b, log)) >= BATCH_SIZE_LIMIT
         THEN Cont("yield_size", Append(b, log), t, 0, <<Append(b, log)>>)
         ELSE TimeRecheck(Append(b, log), t, run, q)

AppendLog_OffByOne(b, log, t, run, q) ==
    IF Len(Append(b, log)) > BATCH_SIZE_LIMIT
    THEN Cont("yield_size", Append(b, log), t, 0, <<Append(b, log)>>)
    ELSE TimeRecheck(Append(b, log), t, run, q)

\* Lines 57-63: append the record got from the queue, check the size limit.
AppendLog(b, log, t, run, q) ==
    IF Len(Append(b, log)) >= BATCH_SIZE_LIMIT
    THEN Cont("yield_size", Append(b, log), t, 0, <<Append(b, log)>>)
    ELSE TimeRecheck(Append(b, log), t, run, q)

\* Mutant of OnTimeout: on a timeout the batch is cleared without being
\* yielded.
OnTimeout_Drop(b, t, run, q) == TimeRecheck(<<>>, 0, run, q)

\* Mutant of OnTimeout: a timeout that finds the batch empty restarts the
\* window (the alternative weighed in the comments of lines 73-78).
OnTimeout_ResetIdle(b, t, run, q) ==
    IF Len(b) > 0
    THEN Cont("yield_timeout", b, t, 0, <<b>>)
    ELSE TimeRecheck(b, 0, run, q)

\* Mutant of OnTimeout: the batch is yielded without the test of line 67.
OnTimeout_NoLenCheck(b, t, run, q) == Cont("yield_timeout", b, t, 0, <<b>>)

\* Lines 65-79: asyncio.TimeoutError.
OnTimeout(b, t, run, q) ==
    IF Len(b) > 0
    THEN Cont("yield_timeout", b, t, 0, <<b>>)
    ELSE TimeRecheck(b, t, run, q)

\* Mutants of OnException: the exception ends the loop as a stop request would
\* (break, then lines 94-96); the exception is not caught, so it reaches the
\* consumer and the frame of the generator is released.
OnException_Stop(b, t, run, q) == FlushRemaining(b, t)

OnException_Raise(b, t, run, q) == Cont("raised", <<>>, 0, 0, <<>>)

\* Lines 80-83: any other exception is printed and swallowed.
OnException(b, t, run, q) == TimeRecheck(b, t, run, q)

\* Mutant of AfterYield: line 63 (70), last_flush_time = time.time(), is
\* missing.
AfterYield_KeepTime(b, t, run, q) == TimeRecheck(<<>>, t, run, q)

\* Mutant of AfterYield: line 62 (69), batch = [], is missing.
AfterYield_KeepBatch(b, t, run, q) == TimeRecheck(b, 0, run, q)

\* Lines 62-63 and 69-70, run when the consumer asks for the next batch; the
\* time check of line 86 follows.
AfterYield(b, t, run, q) == TimeRecheck(<<>>, 0, run, q)

\* Lines 88-89, then line 91.
AfterRecheckYield(b, t, run, q) == BreakCheck(<<>>, 0, run, q)

\* The generator returns after its last yield (line 96).
Return(b, t) == Cont("done", <<>>, 0, 0, <<>>)

Suspend(c) ==
    /\ pc' = c.pc
    /\ batch' = c.batch
    /\ time_since_flush' = c.time_since_flush
    /\ timeout' = c.timeout
    /\ emitted' = emitted \o c.out
    /\ since_yield' = IF ObserveYield /\ c.out # <<>> THEN 0 ELSE since_yield

(***************************************************************************)
(* Analyzer.analyze_batch (src/src/agent.py).  A response text is a        *)
(* sequence of tokens: "<fence>" for three backquotes, the word "json",    *)
(* and one token per JSON document; an exception is known by its message.  *)
(***************************************************************************)
Severities == {"Critical", "Warning", "Info"}
ReportFields == {"title", "severity", "impacted_services", "summary",
                 "noise_reduction_ratio"}

NoReport ==
    [title |-> "", severity |-> "", impacted_services |-> <<>>,
     summary |-> <<>>, noise_reduction_ratio |-> 0]

\* How a piece of code ends: it returns a report, or raises an exception.
Returns(rep) == [exc |-> "none", report |-> rep]
Raises(e) == [exc |-> e, report |-> NoReport]
NotCalled == [exc |-> "not called", report |-> NoReport]

\* Lines 118-125; noise_reduction_ratio is 1.0.
create_fallback_report(reason) ==
    [title |-> "Analysis Failed", severity |-> "Info",
     impacted_services |-> <<>>,
     summary |-> <<"Could not analyze logs: ", reason>>,
     noise_reduction_ratio |-> 1]

\* The report of MOCK_JSON_RESPONSE (tests/test_agent.py:7-15).
MockReport ==
    [title |-> "Database Connection Failure", severity |-> "Critical",
     impacted_services |-> <<"inventory-db", "order-service">>,
     summary |-> <<"The inventory database pool is exhausted.">>,
     noise_reduction_ratio |-> 50]

startswith(text, p) == Len(text) >= Len(p) /\ SubSeq(text, 1, Len(p)) = p
endswith(text, p) ==
    Len(text) >= Len(p) /\ SubSeq(text, Len(text) - Len(p) + 1, Len(text)) = p

\* Lines 62-63.
StripJsonFence(text) ==
    IF startswith(text, <<"<fence>", "json">>) THEN SubSeq(text, 3, Len(text)) ELSE text
\* Lines 64-65.
StripFence(text) ==
    IF startswith(text, <<"<fence>">>) THEN SubSeq(text, 2, Len(text)) ELSE text
\* Lines 66-67.
StripEndFence(text) ==
    IF endswith(text, <<"<fence>">>) THEN SubSeq(text, 1, Len(text) - 1) ELSE text

\* The JSON documents a response may hold, and what json.loads makes of them.
Documents == {"object", "object with extra key", "object with severity Fatal",
              "object without title", "empty list", "list of object",
              "list of number", "number", "null"}

Dict(d) == [type |-> "dict", fields |-> d, items |-> <<>>]
List(l) == [type |-> "list", fields |-> <<>>, items |-> l]
Scalar(t) == [type |-> t, fields |-> <<>>, items |-> <<>>]

ExtraKey == [k \in ReportFields \cup {"confidence"} |->
                IF k = "confidence" THEN "high" ELSE MockReport[k]]
NoTitle == [k \in ReportFields \ {"title"} |-> MockReport[k]]

Decoded(doc) ==
    CASE doc = "object" -> Dict(MockReport)
      [] doc = "object with extra key" -> Dict(ExtraKey)
      [] doc = "object with severity Fatal" ->
             Dict([MockReport EXCEPT !.severity = "Fatal"])
      [] doc = "object without title" -> Dict(NoTitle)
      [] doc = "empty list" -> List(<<>>)
      [] doc = "list of object" -> List(<<Dict(MockReport)>>)
      [] doc = "list of number" -> List(<<Scalar("number")>>)
      [] doc = "number" -> Scalar("number")
      [] doc = "null" -> Scalar("null")

\* json.loads (line 69) accepts a text that is one JSON document.
IsJson(text) == Len(text) = 1 /\ text[1] \in Documents

\* IncidentReport(**data) (line 92): ** needs a mapping; the model needs its
\* five fields, ignores other keys, and accepts three severities.
Validate(data) ==
    IF data.type # "dict" THEN Raises("TypeError")
    ELSE IF ~(ReportFields \subseteq DOMAIN data.fields) \/
            data.fields.severity \notin Severities
         THEN Raises("ValidationError")
         ELSE Returns([k \in ReportFields |-> data.fields[k]])

\* Lines 73-92, once json.loads has returned.
FromData(data) ==
    IF data.type = "list"
    THEN IF data.items # <<>>
         THEN Validate(data.items[1])
         ELSE Returns(create_fallback_report("Empty JSON list returned"))
    ELSE Validate(data)

\* Lines 53-92, the body of the try statement.
TryBody(r) ==
    IF r.raises THEN Raises(r.reason)
    ELSE LET response_text == StripEndFence(StripFence(StripJsonFence(r.text))) IN
         IF IsJson(response_text)
         THEN FromData(Decoded(response_text[1]))
         ELSE Raises("JSONDecodeError")

\* Mutant of Except: only json.JSONDecodeError is caught.
Except_OnlyDecodeError(o) ==
    IF o.exc = "JSONDecodeError" THEN Returns(create_fallback_report(o.exc)) ELSE o

\* Lines 94-96: except Exception as e.
Except(o) ==
    IF o.exc # "none" THEN Returns(create_fallback_report(o.exc)) ELSE o

\* Lines 37-96.
analyze_batch(ls, m, r) ==
    IF ls = <<>> THEN Returns(create_fallback_report("No logs provided"))
    ELSE IF ~m THEN Returns(create_fallback_report("Missing API Key"))
    ELSE Except(TryBody(r))

\* The arguments and the responses tried.
LogBatches == {<<>>, <<"log1">>, <<"log1", "log2", "log3">>}
Texts ==
    {<<>>} \cup
    {pre \o <<body>> \o post :
        pre \in {<<>>, <<"<fence>">>, <<"<fence>", "json">>, <<"json">>},
        body \in Documents \cup {"not json"},
        post \in {<<>>, <<"<fence>">>}}
Replies ==
    {[raises |-> TRUE, reason |-> "API Timeout", text |-> <<>>]} \cup
    {[raises |-> FALSE, reason |-> "", text |-> t] : t \in Texts}

\* No Analyzer call is under way.
AnalyzerIdle ==
    /\ model = FALSE
    /\ logs = <<>>
    /\ reply = [raises |-> FALSE, reason |-> "", text |-> <<>>]
    /\ result = NotCalled

(***************************************************************************)
(* ChaosGenerator.generate_log_stream (src/src/generators.py).  The async  *)
(* generator is suspended at the yield of line 63, once per record, and in *)
(* the sleep of line 65; toggle_meltdown and the assignment                *)
(* is_running = False run only then.  What a record says is left out.      *)
(***************************************************************************)
NORMAL_BATCH == 1
MELTDOWN_BATCH == 50

\* Lines 47-58: batch_size, from the mode as it is when the cycle starts.
BatchSize(melt) == IF melt THEN MELTDOWN_BATCH ELSE NORMAL_BATCH

\* Where generate_log_stream suspends next, and its locals there.
GenCont(p, n, i) == [pc |-> p, batch_size |-> n, sent |-> i]

\* Mutant of Cycle: the loop is 'while True'.
Cycle_Forever(run, melt) == GenCont("yield", BatchSize(melt), 1)

\* Lines 45-63: the loop test, a new burst, and the yield of its first record;
\* the generator returns when the test fails.
Cycle(run, melt) ==
    IF run THEN GenCont("yield", BatchSize(melt), 1) ELSE GenCont("done", 0, 0)

\* Lines 62-65: the yield of the next record of the burst, or the sleep after
\* the last one.
NextLog(n, i) ==
    IF i < n THEN GenCont("yield", n, i + 1) ELSE GenCont("sleep", n, i)

NoGenStop == [requested |-> FALSE, size |-> 0, left |-> 0, after |-> 0]

GenSuspend(c) ==
    /\ gen_pc' = c.pc
    /\ batch_size' = c.batch_size
    /\ sent' = c.sent
    /\ gen_stop' = IF gen_stop.requested /\ c.pc = "yield"
                   THEN [gen_stop EXCEPT !.after = @ + 1]
                   ELSE gen_stop

\* ChaosGenerator.__init__ (lines 32-34); the stream has not been pulled yet.
GeneratorCreated ==
    /\ gen_is_running = FALSE
    /\ meltdown_mode = FALSE
    /\ gen_pc = "init"
    /\ batch_size = 0
    /\ sent = 0
    /\ gen_stop = NoGenStop

NoStop == [pc |-> "none", ni |-> 0, ne |-> 0, nb |-> 0, nq |-> 0]

IngestorCreated(obs) ==
    /\ queue = <<>>
    /\ is_running = FALSE
    /\ batch = <<>>
    /\ time_since_flush = 0
    /\ timeout = 0
    /\ pc = "init"
    /\ emitted = <<>>
    /\ ingested = <<>>
    /\ faults = 0
    /\ uptime = 0
    /\ since_push = 0
    /\ push_uptime = 0
    /\ push_span = 0
    /\ push_after_stop = FALSE
    /\ at_stop = NoStop
    /\ since_stop = 0
    /\ since_yield = 0
    /\ observe = obs

InitObserving(obs) == IngestorCreated(obs) /\ AnalyzerIdle /\ GeneratorCreated

\* Ingestor.__init__ (lines 14-16); process_stream has not been pulled yet.
Init == InitObserving({})

\* Mutant of put: the record goes to the head of the queue.
put_Front(q, log) == <<log>> \o q

\* self.queue.put(log) (line 22).
put(q, log) == Append(q, log)

\* add_log (lines 18-22): the queue is unbounded, so put never waits.
AddLog(p) ==
    /\ Len(ingested) < MaxRecords
    /\ LET log == <<p, CountOf(p, ingested) + 1>> IN
         /\ queue' = put(queue, log)
         /\ ingested' = Append(ingested, log)
    /\ IF ObservePush
       THEN /\ push_uptime' = uptime
            /\ push_span' = since_push
            /\ push_after_stop' = (push_after_stop \/ (~is_running /\ pc # "init"))
       ELSE UNCHANGED <<push_uptime, push_span, push_after_stop>>
    /\ UNCHANGED <<is_running, batch, time_since_flush, timeout, pc>>
    /\ UNCHANGED <<emitted, faults, uptime, since_push, at_stop, since_stop,
                   since_yield, observe, analysis, chaos>>

\* An assignment to ingestor.is_running from outside process_stream.
SetRunning(v) ==
    /\ is_running' = v
    /\ at_stop' = IF ObserveStop /\ pc # "done"
                  THEN [pc |-> pc, ni |-> Len(ingested), ne |-> Len(emitted),
                        nb |-> IF pc = "wait" THEN Len(batch) ELSE 0,
                        nq |-> Len(queue)]
                  ELSE at_stop
    /\ since_stop' = IF ObserveStopClock THEN 0 ELSE since_stop
    /\ UNCHANGED <<queue, batch, time_since_flush, timeout, pc>>
    /\ UNCHANGED <<emitted, ingested, faults, uptime, since_push, push_uptime,
                   push_span, push_after_stop, since_yield, observe, analysis,
                   chaos>>

\* Mutant of Stop: the request flips the flag.
Stop_Toggle == SetRunning(~is_running)

\* ingestor.is_running = False (tests/test_ingestor.py:21, app.py:128).
Stop == SetRunning(FALSE)

\* What a step of process_stream leaves alone.
GeneratorFrame ==
    UNCHANGED <<is_running, ingested, uptime, since_push, push_uptime, push_span,
                push_after_stop, at_stop, since_stop, observe, analysis,
                chaos>>

\* Mutant of RunningAtStart: line 28 is missing, the flag is left as it was.
RunningAtStart_Keep(run) == run

\* Line 28: self.is_running = True, whatever the flag was.
RunningAtStart(run) == TRUE

\* The consumer's first pull: lines 28-30, then the loop up to its first wait.
Start ==
    /\ pc = "init"
    /\ is_running' = RunningAtStart(is_running)
    /\ Suspend(LoopTop(<<>>, 0, RunningAtStart(is_running), queue))
    /\ UNCHANGED <<queue, ingested, faults, uptime, since_push, push_uptime,
                   push_span, push_after_stop, at_stop, since_stop, observe,
                   analysis, chaos>>

\* queue.get() returns a record (lines 47, 55).
Receive ==
    /\ pc = "wait"
    /\ queue # <<>>
    /\ queue' = Tail(queue)
    /\ Suspend(AppendLog(batch, Head(queue), time_since_flush, is_running, Tail(queue)))
    /\ UNCHANGED faults
    /\ GeneratorFrame

\* wait_for gives up: asyncio.TimeoutError (line 65).
Timeout ==
    /\ pc = "wait"
    /\ timeout = 0
    /\ Suspend(OnTimeout(batch, time_since_flush, is_running, queue))
    /\ UNCHANGED <<queue, faults>>
    /\ GeneratorFrame

\* queue.get() raises something else (line 80).
Fault ==
    /\ pc = "wait"
    /\ faults < MaxFaults
    /\ faults' = faults + 1
    /\ Suspend(OnException(batch, time_since_flush, is_running, queue))
    /\ UNCHANGED queue
    /\ GeneratorFrame

\* The consumer pulls again after a size-triggered batch (line 61).
ResumeAfterSize ==
    /\ pc = "yield_size"
    /\ Suspend(AfterYield(batch, time_since_flush, is_running, queue))
    /\ UNCHANGED <<queue, faults>>
    /\ GeneratorFrame

\* The consumer pulls again after a timeout-triggered batch (line 68).
ResumeAfterTimeout ==
    /\ pc = "yield_timeout"
    /\ Suspend(AfterYield(batch, time_since_flush, is_running, queue))
    /\ UNCHANGED <<queue, faults>>
    /\ GeneratorFrame

\* The consumer pulls again after a batch of the explicit time check (line 87).
ResumeAfterRecheck ==
    /\ pc = "yield_recheck"
    /\ Suspend(AfterRecheckYield(batch, time_since_flush, is_running, queue))
    /\ UNCHANGED <<queue, faults>>
    /\ GeneratorFrame

\* The consumer pulls again after the final batch (line 96): the generator
\* returns.
ResumeAfterFinal ==
    /\ pc = "yield_final"
    /\ Suspend(Return(batch, time_since_flush))
    /\ UNCHANGED <<queue, faults>>
    /\ GeneratorFrame

\* One second passes.  Before the first pull and after the generator has
\* returned nothing of the Ingestor reads the clock.
Tick ==
    /\ \/ pc \in YieldPcs
       \/ pc = "wait" /\ queue = <<>> /\ timeout > 0
    /\ time_since_flush' = Min(time_since_flush + 1, BATCH_TIME_LIMIT)
    /\ timeout' = Max(0, timeout - 1)
    /\ IF ObservePush
       THEN /\ uptime' = Min(uptime + 1, WatchMax)
            /\ since_push' = IF ingested = <<>> THEN 0
                             ELSE Min(since_push + 1, WatchMax)
       ELSE UNCHANGED <<uptime, since_push>>
    /\ since_stop' = IF ObserveStopClock /\ at_stop.pc # "none"
                     THEN Min(since_stop + 1, LIVENESS_TIMEOUT + 1)
                     ELSE since_stop
    /\ since_yield' = IF ObserveYield /\ emitted # <<>>
                      THEN Min(since_yield + 1, WatchMax)
                      ELSE since_yield
    /\ UNCHANGED <<queue, is_running, batch, pc, emitted, ingested, faults,
                   push_uptime, push_span, push_after_stop, at_stop, observe,
                   analysis, chaos>>

\* A step of process_stream, as opposed to a step of a producer, of whoever
\* clears is_running, or of the clock.
GeneratorStep ==
    \/ Start
    \/ Receive
    \/ Timeout
    \/ Fault
    \/ ResumeAfterSize
    \/ ResumeAfterTimeout
    \/ ResumeAfterRecheck
    \/ ResumeAfterFinal

\* One producer: add_log calls are serialised by the event loop, and the
\* Ingestor never looks at a record, so who calls add_log matters only to the
\* claim about producers (NextProducers below).
Next ==
    \/ AddLog(1)
    \/ Stop
    \/ GeneratorStep
    \/ Tick

Spec == Init /\ [][Next]_vars

\* The same program, recording the history of stop requests.
InitStop == InitObserving({"stop"})
SpecStop == InitStop /\ [][Next]_vars

\* With a clock that moves and a consumer that iterates until the sequence
\* ends (async for, tests/test_ingestor.py:88), every wait of the generator
\* ends and every yield is resumed.
Progress ==
    /\ WF_vars(Tick)
    /\ WF_vars(Receive)
    /\ WF_vars(Timeout)
    /\ WF_vars(ResumeAfterSize)
    /\ WF_vars(ResumeAfterTimeout)
    /\ WF_vars(ResumeAfterRecheck)
    /\ WF_vars(ResumeAfterFinal)

FairSpecStop == SpecStop /\ Progress

\* The same program, recording the timing of add_log calls.
InitPush == InitObserving({"push"})
SpecPush == InitPush /\ [][Next]_vars

\* The same program with several producers calling add_log, for at most
\* MaxInterleaved records.
NextProducers ==
    \/ \E p \in Producers : Len(ingested) < MaxInterleaved /\ AddLog(p)
    \/ Stop
    \/ GeneratorStep
    \/ Tick

SpecProducers == Init /\ [][NextProducers]_vars

\* The same program, timing the stop requests.
InitStopClock == InitObserving({"stop", "stopclock"})
SpecStopClock == InitStopClock /\ [][Next]_vars

\* The same program, timing the yields.
InitYield == InitObserving({"yield"})
SpecYield == InitYield /\ [][Next]_vars

\* The same program without history, with the consumer and the clock of
\* Progress.
FairSpec == Spec /\ Progress

\* One call of analyze_batch (app.py:101) on an Analyzer made with or without
\* a model (lines 23-35).
InitAnalyzer ==
    /\ IngestorCreated({})
    /\ model \in BOOLEAN
    /\ logs \in LogBatches
    /\ reply \in Replies
    /\ result = NotCalled
    /\ GeneratorCreated

AnalyzeBatch ==
    /\ result = NotCalled
    /\ result' = analyze_batch(logs, model, reply)
    /\ UNCHANGED <<model, logs, reply>>
    /\ UNCHANGED <<state, hist, chaos>>

NextAnalyzer == AnalyzeBatch

SpecAnalyzer == InitAnalyzer /\ [][NextAnalyzer]_vars

\* The log stream of a ChaosGenerator, with its consumer, toggle_meltdown
\* (app.py:58) and the assignment is_running = False (app.py:127).
GenFrame == UNCHANGED <<state, hist, analysis>>

\* The consumer's first pull: line 43, then the first cycle.
GenStart ==
    /\ gen_pc = "init"
    /\ gen_is_running' = TRUE
    /\ GenSuspend(Cycle(TRUE, meltdown_mode))
    /\ UNCHANGED meltdown_mode
    /\ GenFrame

\* The consumer pulls again after a record.
GenPull ==
    /\ gen_pc = "yield"
    /\ GenSuspend(NextLog(batch_size, sent))
    /\ UNCHANGED <<gen_is_running, meltdown_mode>>
    /\ GenFrame

\* The sleep of line 65 is over: the loop test, then the next cycle.
GenWake ==
    /\ gen_pc = "sleep"
    /\ GenSuspend(Cycle(gen_is_running, meltdown_mode))
    /\ UNCHANGED <<gen_is_running, meltdown_mode>>
    /\ GenFrame

\* generator.is_running = False.  The history keeps the first request made
\* while the stream is consumed and the flag is set.
GenStop ==
    /\ gen_is_running' = FALSE
    /\ gen_stop' = IF gen_is_running /\ gen_pc \in {"yield", "sleep"}
                   THEN [requested |-> TRUE, size |-> batch_size,
                         left |-> batch_size - sent, after |-> 0]
                   ELSE gen_stop
    /\ UNCHANGED <<meltdown_mode, gen_pc, batch_size, sent>>
    /\ GenFrame

\* Lines 36-37.
toggle_meltdown(enabled) ==
    /\ meltdown_mode' = enabled
    /\ UNCHANGED <<gen_is_running, gen_pc, batch_size, sent, gen_stop>>
    /\ GenFrame

NextGenerator ==
    \/ GenStart
    \/ GenPull
    \/ GenWake
    \/ GenStop
    \/ \E enabled \in BOOLEAN : toggle_meltdown(enabled)

SpecGenerator == Init /\ [][NextGenerator]_vars

\* A consumer that iterates until the stream ends (async for, app.py:69) and
\* a sleep that ends.
FairSpecGenerator == SpecGenerator /\ WF_vars(GenPull) /\ WF_vars(GenWake)

TypeOK ==
    /\ is_running \in BOOLEAN
    /\ pc \in {"init", "wait", "done"} \cup YieldPcs
    /\ time_since_flush \in 0..BATCH_TIME_LIMIT
    /\ timeout \in 0..BATCH_TIME_LIMIT
    /\ Len(ingested) <= MaxRecords
    /\ faults \in 0..MaxFaults
    /\ since_stop \in 0..(LIVENESS_TIMEOUT + 1)
    /\ since_yield \in 0..WatchMax
    /\ model \in BOOLEAN
    /\ result.exc \in {"not called", "none"}
    /\ gen_is_running \in BOOLEAN
    /\ meltdown_mode \in BOOLEAN
    /\ gen_pc \in {"init", "yield", "sleep", "done"}
    /\ batch_size \in {0, NORMAL_BATCH, MELTDOWN_BATCH}
    /\ sent \in 0..batch_size

(***************************************************************************)
(* Vocabulary of the claims.                                               *)
(***************************************************************************)
Range(s) == {s[i] : i \in 1..Len(s)}

Distinct(s) == \A i, j \in 1..Len(s) : s[i] = s[j] => i = j

Emits == Len(emitted') = Len(emitted) + 1

SizeTrigger(b) == Len(b) >= BATCH_SIZE_LIMIT
TimeTrigger(b, t) == t >= BATCH_TIME_LIMIT /\ Len(b) > 0

(***************************************************************************)
(* C1.  No batch yielded by process_stream is empty, whatever the          *)
(* interleaving of add_log, clock, timeouts, stop requests and final drain.*)
(***************************************************************************)
C1_NoEmptyBatch == \A i \in 1..Len(emitted) : Len(emitted[i]) > 0

\* A liveness timeout hit an empty buffer (the loop is idle again after a
\* timeout batch) and batches were yielded.
C1_Witness ==
    /\ Len(emitted) >= 2
    /\ pc = "wait" /\ batch = <<>> /\ timeout = 0 /\ queue = <<>>

(***************************************************************************)
(* C2.  Order preservation: of two records of the same producer, the one   *)
(* passed to add_log first is in an earlier batch, or earlier in the same  *)
(* batch, whenever both have been emitted.                                 *)
(***************************************************************************)
C2_OrderPreserved ==
    \A a, b \in 1..Len(emitted) :
        \A x \in 1..Len(emitted[a]), y \in 1..Len(emitted[b]) :
            (/\ emitted[a][x][1] = emitted[b][y][1]
             /\ emitted[a][x][2] < emitted[b][y][2])
            => (a < b \/ (a = b /\ x < y))

\* Two producers interleaved: both have records in the first batch and one
\* of them has a later record in the second batch.
C2_Witness ==
    /\ Len(emitted) >= 2
    /\ \E x, y \in 1..Len(emitted[1]) : emitted[1][x][1] # emitted[1][y][1]
    /\ \E x \in 1..Len(emitted[1]), y \in 1..Len(emitted[2]) :
           emitted[1][x][1] = emitted[2][y][1]

(***************************************************************************)
(* C4.  No re-delivery: a record appears at most once in all the emitted   *)
(* batches together, and when the generator is resumed after a yield (size,*)
(* timeout, time re-check or final drain) its buffer is empty.             *)
(***************************************************************************)
C4_NoRedelivery ==
    /\ [](Distinct(Flatten(emitted)))
    /\ [][(pc \in YieldPcs /\ pc' # pc) => batch' = <<>>]_vars

\* A new buffer is being filled after two batches were emitted.
C4_Witness ==
    /\ Len(emitted) >= 2
    /\ pc = "wait" /\ batch # <<>>

(***************************************************************************)
(* C9.  Size bound: no emitted batch has more than BATCH_SIZE_LIMIT        *)
(* records, and the buffer holds fewer than BATCH_SIZE_LIMIT records       *)
(* wherever the generator is suspended, except at the yield of the size    *)
(* trigger itself.                                                         *)
(***************************************************************************)
C9_SizeBound ==
    /\ \A i \in 1..Len(emitted) : Len(emitted[i]) <= BATCH_SIZE_LIMIT
    /\ pc # "yield_size" => Len(batch) < BATCH_SIZE_LIMIT
    /\ pc = "yield_size" => Len(batch) = BATCH_SIZE_LIMIT

\* The loop waits with one record less than the limit after a full batch.
C9_Witness ==
    /\ pc = "wait" /\ Len(batch) = BATCH_SIZE_LIMIT - 1
    /\ \E i \in 1..Len(emitted) : Len(emitted[i]) = BATCH_SIZE_LIMIT

(***************************************************************************)
(* C8.  The batch sequence ends only in a state where is_running is False  *)
(* and the queue is empty, and at its end a final batch is emitted exactly *)
(* when the buffer is not empty.                                           *)
(***************************************************************************)
C8_EndsStoppedAndDrained ==
    /\ [][(pc # "done" /\ pc' = "done") => (~is_running' /\ queue' = <<>>)]_vars
    /\ [][(pc \notin {"yield_final", "done"} /\ pc' = "yield_final")
            => (Emits /\ batch' # <<>> /\ emitted'[Len(emitted')] = batch')]_vars
    /\ [][(pc \notin {"yield_final", "done"} /\ pc' = "done")
            => (~Emits /\ queue' = queue /\ (pc = "wait" => batch = <<>>))]_vars

(***************************************************************************)
(* C3.  A stop request discards nothing: once the batch sequence has       *)
(* ended, every record that was in the queue or in the buffer when stop    *)
(* was requested (so every record ingested before that request) is in an   *)
(* emitted batch.                                                          *)
(***************************************************************************)
C3_StopDiscardsNothing ==
    (pc = "done" /\ at_stop.pc # "none")
    => \A i \in 1..at_stop.ni : ingested[i] \in Range(Flatten(emitted))

(***************************************************************************)
(* C10.  A batch is emitted if and only if a trigger holds: every step of  *)
(* process_stream that yields a batch does so with len(batch) >=           *)
(* BATCH_SIZE_LIMIT, or with a non-empty batch and at least                *)
(* BATCH_TIME_LIMIT elapsed since the last flush; and no step of           *)
(* process_stream leaves such a batch unyielded.                           *)
(***************************************************************************)
C10_EmitsIffTrigger ==
    /\ [][Emits => (SizeTrigger(batch') \/ TimeTrigger(batch', time_since_flush'))]_vars
    /\ [][(GeneratorStep /\ ~Emits)
            => ~(SizeTrigger(batch') \/ TimeTrigger(batch', time_since_flush'))]_vars

\* C10 as amended: the final drain (lines 94-96) also emits, with neither
\* trigger, the non-empty buffer left when stop has been observed and the
\* queue is empty.
FinalDrain == pc' = "yield_final" /\ ~is_running' /\ queue' = <<>> /\ batch' # <<>>

C10_EmitsIffTriggerOrDrain ==
    /\ [][Emits => (\/ SizeTrigger(batch')
                    \/ TimeTrigger(batch', time_since_flush')
                    \/ FinalDrain)]_vars
    /\ [][(GeneratorStep /\ ~Emits)
            => ~(SizeTrigger(batch') \/ TimeTrigger(batch', time_since_flush'))]_vars

\* All four ways of emitting have been taken: size, timeout, time re-check
\* and final drain.
C10_Witness ==
    /\ pc = "yield_final"
    /\ Len(emitted) = 3
    /\ Len(emitted[1]) = BATCH_SIZE_LIMIT
    /\ Len(emitted[2]) < BATCH_SIZE_LIMIT
    /\ time_since_flush < BATCH_TIME_LIMIT

(***************************************************************************)
(* C7.  Drain-on-stop: when stop is requested while the generator waits    *)
(* with m buffered records (0 < m < BATCH_SIZE_LIMIT) and an empty queue,  *)
(* and no record is ingested afterwards, exactly one more batch is         *)
(* emitted, it holds those m records, and the sequence eventually ends.    *)
(***************************************************************************)
StoppedWhileBuffering ==
    /\ at_stop.pc = "wait"
    /\ at_stop.nb > 0 /\ at_stop.nb < BATCH_SIZE_LIMIT
    /\ at_stop.nq = 0
    /\ ~is_running
    /\ Len(ingested) = at_stop.ni

BurstThenStop ==
    /\ pc = "done"
    /\ Len(ingested) > BATCH_SIZE_LIMIT /\ Len(ingested) < 2 * BATCH_SIZE_LIMIT
    /\ push_span < BATCH_TIME_LIMIT
    /\ ~push_after_stop

SizeThenRest ==
    emitted = << SubSeq(ingested, 1, BATCH_SIZE_LIMIT),
                 SubSeq(ingested, BATCH_SIZE_LIMIT + 1, Len(ingested)) >>

C5_SizeTrigger == BurstThenStop => SizeThenRest

\* C5 as amended: the last record is also ingested less than
\* BATCH_TIME_LIMIT after process_stream started.
C5_SizeTriggerFresh ==
    (BurstThenStop /\ push_uptime < BATCH_TIME_LIMIT) => SizeThenRest

\* The sequence has ended after a burst of BATCH_SIZE_LIMIT + 2 records
\* ingested while process_stream was running, none of them at its start.
C5_Witness ==
    /\ BurstThenStop
    /\ push_uptime > 0 /\ push_uptime < BATCH_TIME_LIMIT
    /\ Len(ingested) = BATCH_SIZE_LIMIT + 2
    /\ SizeThenRest

(***************************************************************************)
(* C6.  Time trigger: when n records (0 < n < BATCH_SIZE_LIMIT) are        *)
(* ingested at one instant into a running batcher and no other record      *)
(* arrives, exactly one batch is emitted, with all n records in order, no  *)
(* earlier than BATCH_TIME_LIMIT after the ingestion and no later than     *)
(* that plus the scheduling slack (none in this model: a timeout is served *)
(* before the clock moves).                                                *)
(***************************************************************************)
PushedOnce ==
    /\ pc # "init" /\ is_running
    /\ Len(ingested) > 0 /\ Len(ingested) < BATCH_SIZE_LIMIT
    /\ push_span = 0

C6_TimeTrigger ==
    PushedOnce =>
        /\ emitted \in {<<>>, <<ingested>>}
        /\ emitted # <<>> => since_push >= BATCH_TIME_LIMIT
        /\ since_push > BATCH_TIME_LIMIT => emitted # <<>>

\* C6 as amended: the window is measured from last_flush_time, here the
\* start of process_stream, and the records are ingested before it closes.
C6_TimeTriggerFromFlush ==
    (PushedOnce /\ push_uptime < BATCH_TIME_LIMIT) =>
        /\ emitted \in {<<>>, <<ingested>>}
        /\ emitted # <<>> => uptime >= BATCH_TIME_LIMIT
        /\ uptime > BATCH_TIME_LIMIT => emitted # <<>>

\* Two records ingested one second after the start have been emitted as one
\* batch.
C6_Witness ==
    /\ PushedOnce
    /\ push_uptime = 1
    /\ Len(ingested) = BATCH_SIZE_LIMIT - 1
    /\ emitted = <<ingested>>

(***************************************************************************)
(* C11.  Idempotent stop: a stop request that follows an earlier one, at   *)
(* whatever points of the execution the two are made, changes nothing of   *)
(* the program's state, so the batches emitted and the termination are     *)
(* those of the first request alone.                                       *)
(***************************************************************************)
C11_StopIdempotent ==
    [][(Stop /\ at_stop.pc # "none") => UNCHANGED state]_vars

\* C11 as amended: the requests are made after the first pull.  After a
\* request made then, is_running stays False and a further request changes
\* nothing.  (A request made before the first pull is undone by line 28, and
\* a later request is then the first one that counts.)
C11_StopIdempotentOnceStarted ==
    /\ [][(pc # "init" /\ ~is_running) => ~is_running']_vars
    /\ [][(Stop /\ pc # "init" /\ ~is_running) => UNCHANGED state]_vars

\* The sequence has ended after stop was requested again while the consumer
\* held the final batch, which is yielded only once stop has been observed.
C11_Witness == at_stop.pc = "yield_final" /\ pc = "done"

C13_FaultsNotPropagated ==
    /\ [](pc \in {"init", "wait", "done"} \cup YieldPcs)
    /\ [][(Timeout \/ Fault) =>
            /\ pc' # "done" => batch' = batch
            /\ pc' = "done" => batch = <<>>
            /\ Emits => emitted'[Len(emitted')] = batch]_vars
    /\ [][\A r \in Range(batch) :
            r \in Range(batch') \/ r \in Range(Flatten(emitted'))]_vars
    /\ ((pc = "wait" /\ batch # <<>>) ~> (pc \in YieldPcs))

\* Timeouts and MaxFaults faults have been swallowed, and the sequence has
\* ended with every ingested record in a batch.
C13_Witness ==
    /\ faults = MaxFaults
    /\ pc = "done"
    /\ Len(ingested) >= BATCH_SIZE_LIMIT - 1
    /\ Flatten(emitted) = ingested

(***************************************************************************)
(* C14.  Bounded stop observation: when stop is requested while the loop   *)
(* waits with an empty buffer and an empty queue, and no record is         *)
(* ingested afterwards, the sequence ends without another batch no later   *)
(* than LIVENESS_TIMEOUT after the request: until then the wait in flight  *)
(* goes on with the time it had left, and the clock does not pass the end  *)
(* of a wait (Tick).  No stop request changes where the generator is       *)
(* suspended or the time left of its wait.                                 *)
(***************************************************************************)
StoppedWhileIdle ==
    /\ at_stop.pc = "wait"
    /\ at_stop.nb = 0
    /\ at_stop.nq = 0
    /\ ~is_running
    /\ Len(ingested) = at_stop.ni

C14_BoundedStopObservation ==
    /\ [](StoppedWhileIdle =>
            /\ pc \in {"wait", "done"}
            /\ Len(emitted) = at_stop.ne
            /\ since_stop <= LIVENESS_TIMEOUT
            /\ pc = "wait" => timeout <= LIVENESS_TIMEOUT - since_stop)
    /\ [][(StoppedWhileIdle /\ pc = "wait" /\ pc' # "wait") => pc' = "done"]_vars
    /\ [][Stop => UNCHANGED <<pc, timeout, batch, queue>>]_vars

\* The sequence has ended a full LIVENESS_TIMEOUT after a stop request made
\* while the loop was idle, after an earlier batch.
C14_Witness ==
    /\ StoppedWhileIdle
    /\ pc = "done"
    /\ since_stop = LIVENESS_TIMEOUT
    /\ at_stop.ne >= 1

(***************************************************************************)
(* C15.  analyze_batch never raises and always returns an IncidentReport.  *)
(* For an empty batch, for an Analyzer without model, and whenever the     *)
(* model call, the JSON parsing or the validation of the report raises, the*)
(* report returned is the fallback report: title 'Analysis Failed',        *)
(* severity 'Info', no impacted services, noise_reduction_ratio 1.0 and a  *)
(* summary that holds the reason of the failure.                           *)
(***************************************************************************)
IsIncidentReport(rep) ==
    /\ DOMAIN rep = ReportFields
    /\ rep.severity \in Severities

IsFallbackFor(rep, reason) ==
    /\ rep.title = "Analysis Failed"
    /\ rep.severity = "Info"
    /\ rep.impacted_services = <<>>
    /\ rep.noise_reduction_ratio = 1
    /\ \E i \in 1..Len(rep.summary) : rep.summary[i] = reason

C15_FallbackNeverRaises ==
    result.exc # "not called" =>
        /\ result.exc = "none"
        /\ IsIncidentReport(result.report)
        /\ logs = <<>> => IsFallbackFor(result.report, "No logs provided")
        /\ (logs # <<>> /\ ~model) => IsFallbackFor(result.report, "Missing API Key")
        /\ (logs # <<>> /\ model /\ TryBody(reply).exc # "none")
             => IsFallbackFor(result.report, TryBody(reply).exc)
        /\ (logs # <<>> /\ model /\ reply.raises)
             => IsFallbackFor(result.report, reply.reason)

\* The call of tests/test_agent.py:47-63 has returned: the model call raised
\* 'API Timeout' and the fallback report says so.
C15_Witness ==
    /\ logs = <<"log1">> /\ model /\ reply.raises
    /\ result.exc = "none"
    /\ IsFallbackFor(result.report, "API Timeout")

(***************************************************************************)
(* C16.  Bounded buffering latency: while the loop waits with records in   *)
(* its buffer, the time left of the wait is exactly                        *)
(* max(0, BATCH_TIME_LIMIT - (now - last_flush_time)); so when             *)
(* BATCH_TIME_LIMIT has passed since last_flush_time the wait is over, and *)
(* the step of process_stream that ends it, be it a timeout, a record that *)
(* arrived at that instant or a fault, yields a batch that starts with     *)
(* those records.  The clock does not pass the end of a wait (Tick): that  *)
(* is the model's scheduling slack of zero.                                *)
(***************************************************************************)
Buffering == pc = "wait" /\ batch # <<>>

C16_BoundedLatency ==
    /\ [](Buffering =>
            timeout = Max(0, BATCH_TIME_LIMIT - time_since_flush))
    /\ [][(Buffering /\ time_since_flush >= BATCH_TIME_LIMIT /\ GeneratorStep) =>
            /\ Emits
            /\ SubSeq(emitted'[Len(emitted')], 1, Len(batch)) = batch]_vars
    /\ [][(Buffering /\ Tick) => time_since_flush' = time_since_flush + 1]_vars

\* A buffer one record short of the size limit has been yielded by the
\* timeout at the end of its window, after earlier batches.
C16_Witness ==
    /\ pc = "yield_timeout"
    /\ time_since_flush = BATCH_TIME_LIMIT
    /\ Len(batch) = BATCH_SIZE_LIMIT - 1
    /\ Len(emitted) >= 2

(***************************************************************************)
(* C17.  last_flush_time is the instant of the latest emission: when the   *)
(* loop goes on after a batch yielded by size, by timeout or by the time   *)
(* check, the time since last_flush_time is the time since that batch was  *)
(* yielded; and last_flush_time changes at no other step (the time since   *)
(* it changes only by the clock).                                          *)
(***************************************************************************)
LoopYieldPcs == {"yield_size", "yield_timeout", "yield_recheck"}

Resumes == pc \in LoopYieldPcs /\ pc' # pc

OnlyResetWhenResumed ==
    (time_since_flush' # time_since_flush /\ pc' # "done") =>
        \/ Resumes
        \/ pc' = pc /\ time_since_flush' = time_since_flush + 1

C17_ResetAtEmission ==
    /\ [][Resumes => time_since_flush' = Min(since_yield, BATCH_TIME_LIMIT)]_vars
    /\ [][OnlyResetWhenResumed]_vars

\* C17 as amended: last_flush_time is the instant at which the consumer asks
\* for the next batch, lines 63, 70 and 89 running only then.
C17_ResetWhenResumed ==
    /\ [][Resumes => time_since_flush' = 0]_vars
    /\ [][OnlyResetWhenResumed]_vars

\* The loop waits in a window opened when the consumer came back, later than
\* the batch was yielded (since_yield has not reached WatchMax, where it
\* stops).
C17_Witness ==
    /\ pc = "wait"
    /\ emitted # <<>>
    /\ since_yield <= BATCH_TIME_LIMIT
    /\ time_since_flush < since_yield

(***************************************************************************)
(* C18.  Tie-break: when the record that fills the buffer to               *)
(* BATCH_SIZE_LIMIT is got at a moment when BATCH_TIME_LIMIT has passed    *)
(* since last_flush_time, the batch is yielded by the size check: one      *)
(* batch of exactly BATCH_SIZE_LIMIT records; and when the loop goes on    *)
(* after a batch yielded by the size check, the time check of line 86      *)
(* yields nothing.                                                         *)
(***************************************************************************)
C18_TieIsSizeTriggered ==
    /\ [][(/\ Receive
           /\ Len(batch) = BATCH_SIZE_LIMIT - 1
           /\ time_since_flush >= BATCH_TIME_LIMIT) =>
            /\ pc' = "yield_size"
            /\ emitted' = Append(emitted, Append(batch, Head(queue)))]_vars
    /\ [][(pc = "yield_size" /\ pc' # pc) =>
            /\ ~Emits
            /\ batch' = <<>>
            /\ pc' # "yield_recheck"]_vars

\* A batch has just been yielded by the size check at the end of its window.
C18_Witness ==
    /\ pc = "yield_size"
    /\ since_yield = 0
    /\ time_since_flush >= BATCH_TIME_LIMIT
    /\ Len(emitted[Len(emitted)]) = BATCH_SIZE_LIMIT

(***************************************************************************)
(* C19.  Frame conditions.  A step in which a record is passed to add_log  *)
(* appends that record at the tail of the queue and leaves the buffer,     *)
(* last_flush_time, is_running and the generator alone; a step in which    *)
(* is_running goes from True to False leaves the queue, the buffer and the *)
(* generator alone; the buffer changes only in steps of process_stream,    *)
(* by one record appended or by being emptied.                             *)
(***************************************************************************)
C19_Frame ==
    /\ [][ingested' # ingested =>
            /\ queue' = Append(queue, ingested'[Len(ingested')])
            /\ UNCHANGED <<is_running, batch, time_since_flush, timeout, pc,
                           emitted>>]_vars
    /\ [][(is_running /\ ~is_running') =>
            UNCHANGED <<queue, batch, time_since_flush, timeout, pc,
                        emitted>>]_vars
    /\ [][batch' # batch =>
            /\ GeneratorStep
            /\ \/ batch' = <<>>
               \/ queue # <<>> /\ batch' = Append(batch, Head(queue))]_vars

\* Stop has been requested and a record has been put while the loop waits
\* with records in its buffer.
C19_Witness ==
    /\ pc = "wait" /\ batch # <<>>
    /\ queue # <<>>
    /\ ~is_running
    /\ emitted # <<>>

(***************************************************************************)
(* C20.  A timeout of the wait that finds the buffer empty leaves          *)
(* last_flush_time as it is.  So a record got into an empty buffer when    *)
(* BATCH_TIME_LIMIT or more has passed since last_flush_time is yielded at *)
(* once by the time check of line 86, alone in its batch, whatever else    *)
(* the queue holds (BATCH_SIZE_LIMIT being more than 1).                   *)
(***************************************************************************)
C20_IdleKeepsWindow ==
    /\ [][(Timeout /\ batch = <<>> /\ pc' # "done") =>
            time_since_flush' = time_since_flush]_vars
    /\ [][(Receive /\ batch = <<>> /\ time_since_flush >= BATCH_TIME_LIMIT) =>
            /\ pc' = "yield_recheck"
            /\ emitted' = Append(emitted, <<Head(queue)>>)
            /\ queue' = Tail(queue)]_vars

\* The first record got after BATCH_TIME_LIMIT of idle waits has just been
\* yielded alone by the time check, with another record left in the queue.
C20_Witness ==
    /\ pc = "yield_recheck"
    /\ since_yield = 0
    /\ faults = 0
    /\ Len(emitted) = 1 /\ Len(emitted[1]) = 1
    /\ time_since_flush = BATCH_TIME_LIMIT
    /\ queue # <<>>

(***************************************************************************)
(* C21.  The first pull of process_stream sets is_running to True,         *)
(* whatever it was, so a stop requested before that pull is lost: after    *)
(* the first pull only a stop request clears is_running, and the sequence  *)
(* is at its final batch or at its end only after a stop request made      *)
(* since the first pull.                                                   *)
(***************************************************************************)
C21_StopBeforePullOverwritten ==
    /\ [][(pc = "init" /\ pc' # "init") => is_running']_vars
    /\ [][(pc # "init" /\ is_running /\ ~is_running') => Stop]_vars
    /\ [](pc \in {"yield_final", "done"} => at_stop.pc \notin {"none", "init"})

\* The only stop request was made before the first pull; the loop is running
\* and waiting again after two batches.
C21_Witness ==
    /\ at_stop.pc = "init"
    /\ pc = "wait"
    /\ is_running
    /\ Len(emitted) >= 2

(***************************************************************************)
(* C22.  When the batch sequence ends, the queue and the buffer are empty  *)
(* and every record passed to add_log before that moment, also after a     *)
(* stop request, is in a batch that was yielded.                           *)
(***************************************************************************)
C22_NothingLeftAtEnd ==
    [][(pc # "done" /\ pc' = "done") =>
        /\ queue' = <<>>
        /\ batch' = <<>>
        /\ Flatten(emitted') = ingested']_vars

(***************************************************************************)
(* C23.  generate_log_stream yields its records in bursts: each cycle      *)
(* yields 1 record if meltdown mode is off when the cycle starts and 50 if *)
(* it is on, whatever toggle_meltdown does during the cycle.  Once         *)
(* is_running has been set to False while the stream is consumed, the      *)
(* generator yields no more than the records left of the burst under way,  *)
(* fewer than the size of that burst, and the stream ends after exactly    *)
(* those; it does end if the consumer keeps pulling.                       *)
(***************************************************************************)
NewCycle == gen_pc \in {"init", "sleep"} /\ gen_pc' = "yield"

C23_BurstsAndStop ==
    /\ [][NewCycle =>
            /\ batch_size' = IF meltdown_mode THEN MELTDOWN_BATCH ELSE NORMAL_BATCH
            /\ sent' = 1]_vars
    /\ [][gen_pc = "yield" =>
            /\ batch_size' = batch_size
            /\ gen_pc' = "sleep" <=> (sent = batch_size /\ sent' = sent /\ GenPull)
            /\ gen_pc' = "yield" => sent' \in {sent, sent + 1}]_vars
    /\ [](gen_stop.requested =>
            /\ ~gen_is_running
            /\ gen_stop.left < gen_stop.size
            /\ gen_stop.after <= gen_stop.left
            /\ gen_pc = "done" => gen_stop.after = gen_stop.left)
    /\ [](gen_pc = "done" => gen_stop.requested)
    /\ (gen_stop.requested ~> gen_pc = "done")

\* The stream has ended after the 49 records left of a meltdown burst: stop
\* was requested at the first record of the burst, and meltdown mode was
\* switched off during the burst.
C23_Witness ==
    /\ gen_pc = "done"
    /\ gen_stop.size = MELTDOWN_BATCH
    /\ gen_stop.after = MELTDOWN_BATCH - 1
    /\ ~meltdown_mode
====
